---- MODULE Spec2Model ----
(***************************************************************************)
(* Model of birth_cert_intl.py: the extraction of a Record from the block  *)
(* list of one analysed certificate (extract_table_fields,                 *)
(* extract_comune_sezione), the civil-status resolver                      *)
(* (get_stato_from_vertical_boxes), the seal footer (extract_seal_footer), *)
(* the place normaliser (map_exonyms) and the main flow that hands the     *)
(* Record to make_docx.                                                    *)
(*                                                                         *)
(* A Python str is a sequence of one-character strings.  Bounding-box      *)
(* coordinates are integers on a grid; a vertical centre Top + Height/2 is *)
(* kept as twice its value, 2*Top + Height, so that it stays an integer.   *)
(* Every comparison of centres and of distances is the same on both sides  *)
(* of that scaling.                                                        *)
(***************************************************************************)
EXTENDS Integers, Sequences, FiniteSets, TLC

VARIABLES
    pc,       \* position in the flow
    blocks,   \* resp["Blocks"] of the document being processed
    bmap,     \* {b["Id"]: b for b in blocks}
    arg,      \* the string argument of a direct call (gender, text)
    ret,      \* the value a direct call returned
    data,     \* the Record of the document being processed
    download, \* the file name offered for download
    uploaded_files, \* the block lists textract answers for the files submitted together
    zipf      \* the entries written to the ZIP, in order

vars == <<pc, blocks, bmap, arg, ret, data, download, uploaded_files, zipf>>

\* Python's None: a value that is no string (its one element is not a character)
None == <<"None">>

(***************************************************************************)
(* str methods                                                             *)
(***************************************************************************)
ToLower ==
    ("A" :> "a") @@ ("B" :> "b") @@ ("C" :> "c") @@ ("D" :> "d") @@ ("E" :> "e") @@ ("F" :> "f") @@
    ("G" :> "g") @@ ("H" :> "h") @@ ("I" :> "i") @@ ("J" :> "j") @@ ("K" :> "k") @@ ("L" :> "l") @@
    ("M" :> "m") @@ ("N" :> "n") @@ ("O" :> "o") @@ ("P" :> "p") @@ ("Q" :> "q") @@ ("R" :> "r") @@
    ("S" :> "s") @@ ("T" :> "t") @@ ("U" :> "u") @@ ("V" :> "v") @@ ("W" :> "w") @@ ("X" :> "x") @@
    ("Y" :> "y") @@ ("Z" :> "z") @@ ("Ë" :> "ë") @@ ("Ç" :> "ç")

ToUpper ==
    ("a" :> "A") @@ ("b" :> "B") @@ ("c" :> "C") @@ ("d" :> "D") @@ ("e" :> "E") @@ ("f" :> "F") @@
    ("g" :> "G") @@ ("h" :> "H") @@ ("i" :> "I") @@ ("j" :> "J") @@ ("k" :> "K") @@ ("l" :> "L") @@
    ("m" :> "M") @@ ("n" :> "N") @@ ("o" :> "O") @@ ("p" :> "P") @@ ("q" :> "Q") @@ ("r" :> "R") @@
    ("s" :> "S") @@ ("t" :> "T") @@ ("u" :> "U") @@ ("v" :> "V") @@ ("w" :> "W") @@ ("x" :> "X") @@
    ("y" :> "Y") @@ ("z" :> "Z") @@ ("ë" :> "Ë") @@ ("ç" :> "Ç")

Digits == {"0", "1", "2", "3", "4", "5", "6", "7", "8", "9"}

lower_char(c) == IF c \in DOMAIN ToLower THEN ToLower[c] ELSE c

upper_char(c) == IF c \in DOMAIN ToUpper THEN ToUpper[c] ELSE c

\* str.lower()
lower(s) == [i \in 1..Len(s) |-> lower_char(s[i])]

\* str.upper()
upper(s) == [i \in 1..Len(s) |-> upper_char(s[i])]

\* str.isspace() of one character
is_space(c) == c = " "

\* str.isalpha() of one character
is_alpha(c) == c \in DOMAIN ToLower \/ c \in DOMAIN ToUpper

\* the characters the regex class \w matches
is_word_char(c) == is_alpha(c) \/ c \in Digits \/ c = "_"

RECURSIVE lstrip(_)
lstrip(s) ==
    IF s # << >> /\ is_space(Head(s)) THEN lstrip(Tail(s)) ELSE s

RECURSIVE rstrip(_)
rstrip(s) ==
    IF s # << >> /\ is_space(s[Len(s)]) THEN rstrip(SubSeq(s, 1, Len(s) - 1)) ELSE s

\* str.strip()
strip(s) == rstrip(lstrip(s))

\* s[i:i+len(p)] == p   (i is 1-based)
match_at(s, i, p) ==
    /\ i + Len(p) - 1 <= Len(s)
    /\ \A j \in 1..Len(p) : s[i + j - 1] = p[j]

\* str.startswith(p)
startswith(s, p) == match_at(s, 1, p)

\* p in s
contains(s, p) == \E i \in 1..(Len(s) + 1) : match_at(s, i, p)

\* str.find(p) as a 1-based position, 0 when p does not occur
find(s, p) ==
    IF contains(s, p)
    THEN CHOOSE i \in 1..(Len(s) + 1) :
            /\ match_at(s, i, p)
            /\ \A k \in 1..(i - 1) : ~match_at(s, k, p)
    ELSE 0

\* str.replace(old, new) for a non-empty old: leftmost occurrences, not overlapping
RECURSIVE replace(_, _, _)
replace(s, old, new) ==
    LET i == find(s, old) IN
    IF i = 0 THEN s
    ELSE SubSeq(s, 1, i - 1) \o new \o replace(SubSeq(s, i + Len(old), Len(s)), old, new)

(***************************************************************************)
(* get_stato_from_vertical_boxes                                           *)
(***************************************************************************)
fragments == <<
    <<<<"b","e","q","a","r">>,   0>>,
    <<<<"m","a","r","t","u">>,   1>>,
    <<<<"s","h","k","u","r","o","r">>, 2>>,
    <<<<"v","e","d","o","v">>,   3>> >>

male   == << <<"C","e","l","i","b","e">>, <<"C","o","n","i","u","g","a","t","o">>, <<"D","i","v","o","r","z","i","a","t","o">>, <<"V","e","d","o","v","o">> >>
female == << <<"N","u","b","i","l","e">>, <<"C","o","n","i","u","g","a","t","a">>, <<"D","i","v","o","r","z","i","a","t","a">>, <<"V","e","d","o","v","a">> >>

\* "[X] Stato non riconosciuto"
StatoNonRiconosciuto == <<"[","X","]"," ","S","t","a","t","o"," ","n","o","n"," ","r","i","c","o","n","o","s","c","i","u","t","o">>

\* bb["Top"] + bb["Height"]/2, as twice its value
centre_y(bb) == 2 * bb.Top + bb.Height

\* idx in centres, for centres kept as the list of its (idx, y) items in insertion order
has_key(centres, idx) == \E k \in 1..Len(centres) : centres[k][1] = idx

\* the inner loop over the fragments for one WORD
RECURSIVE scan_fragments(_, _, _, _)
scan_fragments(w, text_low, k, centres) ==
    IF k > Len(fragments) THEN centres
    ELSE LET frag == fragments[k][1]
             idx  == fragments[k][2]
         IN IF contains(text_low, frag) /\ ~has_key(centres, idx)
            THEN scan_fragments(w, text_low, k + 1,
                     Append(centres, <<idx, centre_y(w.Geometry.BoundingBox)>>))
            ELSE scan_fragments(w, text_low, k + 1, centres)

\* the WORDs the loop of step 1 acts on: those whose text holds a fragment
label_words(blks) ==
    SelectSeq(blks, LAMBDA w :
        /\ w.BlockType = "WORD"
        /\ \E k \in 1..Len(fragments) : contains(lower(strip(w.Text)), fragments[k][1]))

\* step 1: the first WORD of each fragment, with its centre
RECURSIVE locate_centres(_, _, _)
locate_centres(words, i, centres) ==
    IF i > Len(words) THEN centres
    ELSE locate_centres(words, i + 1,
             scan_fragments(words[i], lower(strip(words[i].Text)), 1, centres))

\* sorted(items, key=lambda p: p[1]): a stable sort, by insertion
RECURSIVE insert_sorted(_, _)
insert_sorted(sorted, p) ==
    IF sorted = << >> THEN <<p>>
    ELSE IF sorted[Len(sorted)][2] <= p[2] THEN Append(sorted, p)
    ELSE Append(insert_sorted(SubSeq(sorted, 1, Len(sorted) - 1), p), sorted[Len(sorted)])

RECURSIVE sorted_by_y(_)
sorted_by_y(items) ==
    IF items = << >> THEN << >>
    ELSE insert_sorted(sorted_by_y(SubSeq(items, 1, Len(items) - 1)), items[Len(items)])

\* the text of a handwritten mark
is_mark_text(t) == lower(strip(t)) \in { <<"x">>, <<"x",".">>, <<"x",",">> }

\* step 2: next(w for w in blocks if WORD and mark text, None), as a position; 0 is None
find_x_block(blks) ==
    IF \E i \in 1..Len(blks) : blks[i].BlockType = "WORD" /\ is_mark_text(blks[i].Text)
    THEN CHOOSE i \in 1..Len(blks) :
            /\ blks[i].BlockType = "WORD" /\ is_mark_text(blks[i].Text)
            /\ \A k \in 1..(i - 1) :
                  ~(blks[k].BlockType = "WORD" /\ is_mark_text(blks[k].Text))
    ELSE 0

abs(n) == IF n < 0 THEN -n ELSE n

\* variant of min_by_distance: the last item attaining the minimum
min_by_distance_last(ordered, x_centre_y) ==
    LET k == CHOOSE k \in 1..Len(ordered) :
                 /\ \A j \in 1..Len(ordered) :
                        abs(ordered[k][2] - x_centre_y) <= abs(ordered[j][2] - x_centre_y)
                 /\ \A j \in (k + 1)..Len(ordered) :
                        abs(ordered[j][2] - x_centre_y) > abs(ordered[k][2] - x_centre_y)
    IN ordered[k]

\* step 3: min(ordered, key=lambda p: abs(p[1] - x)): the first item attaining the minimum
min_by_distance(ordered, x_centre_y) ==
    LET k == CHOOSE k \in 1..Len(ordered) :
                 /\ \A j \in 1..Len(ordered) :
                        abs(ordered[k][2] - x_centre_y) <= abs(ordered[j][2] - x_centre_y)
                 /\ \A j \in 1..(k - 1) :
                        abs(ordered[j][2] - x_centre_y) > abs(ordered[k][2] - x_centre_y)
    IN ordered[k]

\* variant of gendered_form: the gender compared without gender.lower()
gendered_form_case_sensitive(best_idx, gender) ==
    IF startswith(gender, <<"f">>) THEN female[best_idx + 1]
    ELSE IF startswith(gender, <<"m">>) THEN male[best_idx + 1]
    ELSE male[best_idx + 1] \o <<" ","/"," ">> \o female[best_idx + 1]

\* step 4: the gender-specific Italian form
gendered_form(best_idx, gender) ==
    LET g == lower(gender) IN
    IF startswith(g, <<"f">>) THEN female[best_idx + 1]
    ELSE IF startswith(g, <<"m">>) THEN male[best_idx + 1]
    ELSE male[best_idx + 1] \o <<" ","/"," ">> \o female[best_idx + 1]

\* variant of get_stato_from_vertical_boxes: three located fragments are enough
get_stato_three_fragments(blks, bm, gender) ==
    LET centres == locate_centres(label_words(blks), 1, << >>) IN
    IF Len(centres) < 3 THEN StatoNonRiconosciuto
    ELSE LET ordered == sorted_by_y(centres)
             x_block == find_x_block(blks)
         IN IF x_block = 0 THEN StatoNonRiconosciuto
            ELSE LET x_centre_y == centre_y(blks[x_block].Geometry.BoundingBox)
                     best_idx   == min_by_distance(ordered, x_centre_y)[1]
                 IN gendered_form(best_idx, IF gender = None THEN << >> ELSE gender)

get_stato_from_vertical_boxes(blks, bm, gender) ==
    LET centres == locate_centres(label_words(blks), 1, << >>) IN
    IF Len(centres) < 4 THEN StatoNonRiconosciuto
    ELSE LET ordered == sorted_by_y(centres)
             x_block == find_x_block(blks)
         IN IF x_block = 0 THEN StatoNonRiconosciuto
            ELSE LET x_centre_y == centre_y(blks[x_block].Geometry.BoundingBox)
                     best_idx   == min_by_distance(ordered, x_centre_y)[1]
                 IN gendered_form(best_idx, IF gender = None THEN << >> ELSE gender)

(***************************************************************************)
(* extract_seal_footer                                                     *)
(***************************************************************************)
\* [b["Text"] for b in blocks if b["BlockType"] == "LINE"]
line_texts(blks) ==
    LET line_blocks == SelectSeq(blks, LAMBDA b : b.BlockType = "LINE")
    IN [i \in 1..Len(line_blocks) |-> line_blocks[i].Text]

SealMarker == <<"v","u","l","o","s","u","r"," ","e","l","e","k","t","r","o","n","i","k","i","s","h","t">>

\* the positions (1-based, ascending) of the lines containing the marker
RECURSIVE marker_matches(_, _)
marker_matches(lines, i) ==
    IF i > Len(lines) THEN << >>
    ELSE IF contains(lower(lines[i]), SealMarker)
         THEN <<i>> \o marker_matches(lines, i + 1)
         ELSE marker_matches(lines, i + 1)

\* re.match(r"\d{4}/\d{2}/\d{2}", txt[i-1:])
date_at(txt, i) ==
    /\ i + 9 <= Len(txt)
    /\ \A k \in {0, 1, 2, 3, 5, 6, 8, 9} : txt[i + k] \in Digits
    /\ txt[i + 4] = "/"
    /\ txt[i + 7] = "/"

\* re.search(r"\d{4}/\d{2}/\d{2}", txt)
has_date(txt) == \E i \in 1..Len(txt) : date_at(txt, i)

\* the regex tail \s*:?\s* consumed from the front of s
skip_label_tail(s) ==
    LET a == lstrip(s) IN
    IF a # << >> /\ Head(a) = ":" THEN lstrip(Tail(a)) ELSE a

\* re.sub(r"^(Date|Datë)\s*:?\s*", "", txt, flags=re.I)
strip_date_label(txt) ==
    IF startswith(lower(txt), <<"d","a","t","e">>) \/ startswith(lower(txt), <<"d","a","t","ë">>)
    THEN skip_label_tail(SubSeq(txt, 5, Len(txt)))
    ELSE txt

HashMinLen == 30
HashMaxLen == 40

HexChars == Digits \cup {"a", "b", "c", "d", "e", "f", "A", "B", "C", "D", "E", "F"}

\* re.fullmatch(r"[A-Fa-f0-9]{30,40}", txt)
is_hash(txt) ==
    /\ Len(txt) >= HashMinLen
    /\ Len(txt) <= HashMaxLen
    /\ \A i \in 1..Len(txt) : txt[i] \in HexChars

\* sep.join(parts)
RECURSIVE join(_, _)
join(sep, parts) ==
    IF parts = << >> THEN << >>
    ELSE IF Len(parts) = 1 THEN parts[1]
    ELSE parts[1] \o sep \o join(sep, Tail(parts))

\* the for loop over lines[start:], from position i with the date and hash found so far
RECURSIVE scan_seal(_, _, _, _)
scan_seal(lines, i, date_line, hash_line) ==
    IF i > Len(lines) \/ (date_line # << >> /\ hash_line # << >>)
    THEN <<date_line, hash_line>>
    ELSE LET txt == strip(lines[i]) IN
         IF date_line = << >> /\ has_date(txt)
         THEN scan_seal(lines, i + 1, <<"I","n"," ","d","a","t","a"," ">> \o strip(strip_date_label(txt)), hash_line)
         ELSE IF hash_line = << >> /\ is_hash(txt)
         THEN scan_seal(lines, i + 1, date_line, txt)
         ELSE scan_seal(lines, i + 1, date_line, hash_line)

SealHeader1 == <<"T","i","m","b","r","o"," ","e","l","e","t","t","r","o","n","i","c","o"," ","d","e","l","l","a"," ","D","i","r","e","z","i","o","n","e">>
SealHeader2 == <<"G","e","n","e","r","a","l","e"," ","d","e","l","l","o"," ","S","t","a","t","o"," ","C","i","v","i","l","e">>

\* variant of extract_seal_footer: the scan starts at the first marker line
extract_seal_footer_first_marker(blks) ==
    LET lines   == line_texts(blks)
        matches == marker_matches(lines, 1)
    IN IF Len(matches) < 2 THEN << >>
       ELSE LET found     == scan_seal(lines, matches[1], << >>, << >>)
                date_line == found[1]
                hash_line == found[2]
            IN IF ~(date_line # << >> /\ hash_line # << >>) THEN << >>
               ELSE join(<<"\n">>, <<SealHeader1, SealHeader2, date_line, hash_line>>)

extract_seal_footer(blks) ==
    LET lines   == line_texts(blks)
        matches == marker_matches(lines, 1)
    IN IF Len(matches) < 2 THEN << >>
       ELSE LET found     == scan_seal(lines, matches[2], << >>, << >>)
                date_line == found[1]
                hash_line == found[2]
            IN IF ~(date_line # << >> /\ hash_line # << >>) THEN << >>
               ELSE join(<<"\n">>, <<SealHeader1, SealHeader2, date_line, hash_line>>)

(***************************************************************************)
(* re.sub for the patterns the program uses: a pattern is a sequence of    *)
(* elements, each a character class or the dot, optionally between two \b  *)
(***************************************************************************)
Lit(c) == [any |-> FALSE, chars |-> {c}]
Cls(S) == [any |-> FALSE, chars |-> S]
Dot    == [any |-> TRUE,  chars |-> {}]

\* one pattern element against one character
elem_matches(e, c, ignorecase) ==
    IF e.any THEN c # "\n"
    ELSE IF ignorecase THEN lower_char(c) \in {lower_char(x) : x \in e.chars}
    ELSE c \in e.chars

\* the assertion \b at position i of s (between s[i-1] and s[i])
word_boundary(s, i) ==
    (i > 1 /\ is_word_char(s[i - 1])) # (i <= Len(s) /\ is_word_char(s[i]))

\* the pattern matches s at position i
re_match_at(pat, s, i) ==
    /\ i + Len(pat.elems) - 1 <= Len(s)
    /\ \A j \in 1..Len(pat.elems) : elem_matches(pat.elems[j], s[i + j - 1], pat.ignorecase)
    /\ pat.bounded => (word_boundary(s, i) /\ word_boundary(s, i + Len(pat.elems)))

\* re.sub(pat, repl, s): leftmost matches, not overlapping, scanning from position i
RECURSIVE re_sub_from(_, _, _, _)
re_sub_from(pat, repl, s, i) ==
    IF i > Len(s) THEN << >>
    ELSE IF re_match_at(pat, s, i)
         THEN repl \o re_sub_from(pat, repl, s, i + Len(pat.elems))
         ELSE <<s[i]>> \o re_sub_from(pat, repl, s, i + 1)

re_sub(pat, repl, s) == re_sub_from(pat, repl, s, 1)

(***************************************************************************)
(* map_exonyms                                                             *)
(***************************************************************************)
\* \bTiran[ëe]\b
PatTirane  == [elems |-> <<Lit("T"), Lit("i"), Lit("r"), Lit("a"), Lit("n"), Cls({"ë", "e"})>>,
               bounded |-> TRUE, ignorecase |-> TRUE]
\* \bVlor[ëe]\b
PatVlore   == [elems |-> <<Lit("V"), Lit("l"), Lit("o"), Lit("r"), Cls({"ë", "e"})>>,
               bounded |-> TRUE, ignorecase |-> TRUE]
\* \bDurr[ëe]s\b
PatDurres  == [elems |-> <<Lit("D"), Lit("u"), Lit("r"), Lit("r"), Cls({"ë", "e"}), Lit("s")>>,
               bounded |-> TRUE, ignorecase |-> TRUE]
\* \bShkod[ëe]r\b
PatShkoder == [elems |-> <<Lit("S"), Lit("h"), Lit("k"), Lit("o"), Lit("d"), Cls({"ë", "e"}), Lit("r")>>,
               bounded |-> TRUE, ignorecase |-> TRUE]

EXONYM_RULES == <<
    <<PatTirane,  <<"T","i","r","a","n","a">>>>,
    <<PatVlore,   <<"V","a","l","o","n","a">>>>,
    <<PatDurres,  <<"D","u","r","a","z","z","o">>>>,
    <<PatShkoder, <<"S","c","u","t","a","r","i">>>> >>

\* variant of apply_rules: the loop ends after the first rule that changes the text
RECURSIVE apply_rules_first_hit(_, _, _)
apply_rules_first_hit(rules, k, out) ==
    IF k > Len(rules) THEN out
    ELSE IF re_sub(rules[k][1], rules[k][2], out) # out
         THEN re_sub(rules[k][1], rules[k][2], out)
         ELSE apply_rules_first_hit(rules, k + 1, out)

\* the for loop over the rules, from rule k
RECURSIVE apply_rules(_, _, _)
apply_rules(rules, k, out) ==
    IF k > Len(rules) THEN out
    ELSE apply_rules(rules, k + 1, re_sub(rules[k][1], rules[k][2], out))

\* map_exonyms with the rule list as a parameter
map_exonyms_with(rules, text) ==
    IF text = None \/ text = << >> THEN text
    ELSE apply_rules(rules, 1, text)

map_exonyms(text) == map_exonyms_with(EXONYM_RULES, text)

(***************************************************************************)
(* extract_table_fields                                                    *)
(***************************************************************************)
\* the value a dict lookup of a missing key ends the call with
KeyError == [error |-> "KeyError"]

\* b.get("Relationships", [])
relationships(b) == IF "Relationships" \in DOMAIN b THEN b.Relationships ELSE << >>

\* cr.get("Ids", [])
ids_of(cr) == IF "Ids" \in DOMAIN cr THEN cr.Ids ELSE << >>

\* next((b for b in blocks if b["BlockType"] == "TABLE"), None), as a position; 0 is None
find_table(blks) ==
    IF \E i \in 1..Len(blks) : blks[i].BlockType = "TABLE"
    THEN CHOOSE i \in 1..Len(blks) :
            /\ blks[i].BlockType = "TABLE"
            /\ \A k \in 1..(i - 1) : blks[k].BlockType # "TABLE"
    ELSE 0

\* the ids of the CHILD relationships of the table, in order
RECURSIVE child_ids(_, _)
child_ids(rels, k) ==
    IF k > Len(rels) THEN << >>
    ELSE IF rels[k].Type # "CHILD" THEN child_ids(rels, k + 1)
    ELSE rels[k].Ids \o child_ids(rels, k + 1)

\* the ids of every relationship of a cell, in order
RECURSIVE all_ids(_, _)
all_ids(rels, k) ==
    IF k > Len(rels) THEN << >>
    ELSE ids_of(rels[k]) \o all_ids(rels, k + 1)

\* " ".join(w["Text"] for ... if w["BlockType"] == "WORD").strip()
cell_text(cell, bm) ==
    LET wids  == all_ids(relationships(cell), 1)
        words == SelectSeq([j \in 1..Len(wids) |-> bm[wids[j]]],
                           LAMBDA w : w.BlockType = "WORD")
    IN strip(join(<<" ">>, [j \in 1..Len(words) |-> words[j].Text]))

\* the loop over the cell ids: rows.setdefault(r, {})[c] = txt, rows keyed by <<r, c>>
RECURSIVE fill_rows(_, _, _, _)
fill_rows(cids, k, bm, rows) ==
    IF k > Len(cids) THEN rows
    ELSE LET cell == bm[cids[k]] IN
         IF cell.BlockType # "CELL" THEN fill_rows(cids, k + 1, bm, rows)
         ELSE LET rc  == <<cell.RowIndex, cell.ColumnIndex>>
                  txt == cell_text(cell, bm)
              IN fill_rows(cids, k + 1, bm, (rc :> txt) @@ rows)

\* variant of rows_get: a missing cell reads as None
rows_get_none(rows, r, c) == IF <<r, c>> \in DOMAIN rows THEN rows[<<r, c>>] ELSE None

\* rows.get(r, {}).get(c, "")
rows_get(rows, r, c) == IF <<r, c>> \in DOMAIN rows THEN rows[<<r, c>>] ELSE << >>

\* every id the table walk looks up is a key of bmap
ids_resolve(tbl, bm) ==
    LET cids == child_ids(relationships(tbl), 1) IN
    \A k \in 1..Len(cids) :
        /\ cids[k] \in DOMAIN bm
        /\ bm[cids[k]].BlockType = "CELL" =>
              LET wids == all_ids(relationships(bm[cids[k]]), 1)
              IN \A j \in 1..Len(wids) : wids[j] \in DOMAIN bm

\* Nd.   (a regular expression: the dot matches any character)
PatNd == [elems |-> <<Lit("N"), Lit("d"), Dot>>, bounded |-> FALSE, ignorecase |-> FALSE]

\* the clean-up of the row 9 / column 2 abbreviations
clean_residence(res_raw) ==
    LET s1 == re_sub(PatNd, <<"E","d",".">>, res_raw)
        s2 == replace(s1, <<"H",".">>, <<"I","n","t",".">>)
        s3 == replace(s2, <<"A","p",".">>, <<"A","p","p",".">>)
        s4 == replace(s3, <<"N","j","ë","s","i","a">>, <<"S","e","z","i","o","n","e">>)
        s5 == replace(s4, <<"A","d","m","i","n","i","s","t","r","a","t","i","v","e">>, <<"A","m","m","i","n","i","s","t","r","a","t","i","v","a">>)
        s6 == replace(s5, <<"N","J","Ë","S","I","A">>, <<"S","e","z","i","o","n","e">>)
        s7 == replace(s6, <<"A","D","M","I","N","I","S","T","R","A","T","I","V","E">>, <<"A","m","m","i","n","i","s","t","r","a","t","i","v","a">>)
        s8 == replace(s7, <<"N","J","E","S","I","A">>, <<"S","e","z","i","o","n","e">>)
    IN replace(s8, <<"N","j","e","s","i","a">>, <<"S","e","z","i","o","n","e">>)

\* rows after the clean-up: only the row 9 / column 2 cell is touched, and only when not empty
cleaned_rows(rows) ==
    LET res_raw == rows_get(rows, 9, 2) IN
    IF res_raw # << >>
    THEN (<<9, 2>> :> clean_residence(res_raw)) @@ rows
    ELSE rows

\* the mapping of the sex code
sesso_value(cell) ==
    LET sesso_raw == upper(strip(cell)) IN
    IF sesso_raw = <<"M">> THEN <<"M","a","s","c","h","i","o">>
    ELSE IF sesso_raw = <<"F">> THEN <<"F","e","m","m","i","n","i","l","e">>
    ELSE sesso_raw

AlbanianVariants == { <<"A","L","B">>, <<"A","L","B","A","N","I","A">>, <<"S","H","Q","I","P","T","A","R","E">>, <<"S","H","Q","I","P","T","A","R">> }

\* variant of cittadinanza_value: the value compared without .upper()
cittadinanza_value_case_sensitive(value) ==
    IF strip(value) \in AlbanianVariants THEN <<"A","l","b","a","n","e","s","e">> ELSE value

\* the normalisation of the citizenship
cittadinanza_value(value) ==
    LET citt == upper(strip(value)) IN
    IF citt \in AlbanianVariants THEN <<"A","l","b","a","n","e","s","e">> ELSE value

\* the grid row of each field read from column 2
FieldRow ==
    ("Nome" :> 2) @@ ("Cognome" :> 3) @@ ("Numero personale" :> 4) @@
    ("Nome del padre" :> 5) @@ ("Nome della madre" :> 6) @@ ("Data di nascita" :> 7) @@
    ("Luogo di nascita" :> 8) @@ ("Residenza" :> 9) @@ ("Cittadinanza" :> 12) @@
    ("Cognome prima del matrimonio" :> 13) @@ ("Data del rilascio" :> 14)

\* the result dict before the normalisations
raw_result(blks, bm, rows) ==
    LET sesso_val == sesso_value(rows_get(rows, 10, 2)) IN
    [k \in DOMAIN FieldRow |-> rows_get(rows, FieldRow[k], 2)] @@
    ("Sesso" :> sesso_val) @@
    ("Stato Civile" :> get_stato_from_vertical_boxes(blks, bm, sesso_val)) @@
    ("ElectronicSeal" :> extract_seal_footer(blks))

\* the place names and the citizenship normalised
normalised_result(result) ==
    [k \in DOMAIN result |->
        IF k \in {"Luogo di nascita", "Residenza"} THEN map_exonyms(result[k])
        ELSE IF k = "Cittadinanza" THEN cittadinanza_value(result[k])
        ELSE result[k]]

\* variant of no_table_result: every table field present and empty
blank_result ==
    [k \in DOMAIN FieldRow \cup {"Sesso", "Stato Civile", "ElectronicSeal"} |-> << >>]

\* the dict returned when the block list holds no TABLE
no_table_result == << >>

extract_table_fields(blks, bm) ==
    LET t == find_table(blks) IN
    IF t = 0 THEN no_table_result
    ELSE IF ~ids_resolve(blks[t], bm) THEN KeyError
    ELSE LET grid == fill_rows(child_ids(relationships(blks[t]), 1), 1, bm, << >>)
         IN normalised_result(raw_result(blks, bm, cleaned_rows(grid)))

(***************************************************************************)
(* extract_comune_sezione                                                  *)
(***************************************************************************)
\* the class [A-ZÇËA-Za-zë\-]
ComuneClass == ((DOMAIN ToLower \cup DOMAIN ToUpper) \ {"ç"}) \cup {"-"}

\* the longest prefix of s made of characters of the class S
RECURSIVE take_while(_, _)
take_while(s, S) ==
    IF s # << >> /\ Head(s) \in S THEN <<Head(s)>> \o take_while(Tail(s), S) ELSE << >>

\* Bashkia\s+([A-ZÇËA-Za-zë\-]+) matches l at position i
bashkia_at(l, i) ==
    /\ match_at(l, i, <<"B","a","s","h","k","i","a">>)
    /\ LET rest == SubSeq(l, i + 7, Len(l)) IN
       /\ lstrip(rest) # rest
       /\ take_while(lstrip(rest), ComuneClass) # << >>

\* re.search(r"Bashkia\s+([A-ZÇËA-Za-zë\-]+)", l): group 1 of the leftmost match, or None
bashkia_capture(l) ==
    IF \E i \in 1..Len(l) : bashkia_at(l, i)
    THEN LET i == CHOOSE i \in 1..Len(l) :
                     bashkia_at(l, i) /\ \A k \in 1..(i - 1) : ~bashkia_at(l, k)
         IN take_while(lstrip(SubSeq(l, i + 7, Len(l))), ComuneClass)
    ELSE None

\* str.title()
title(s) ==
    [i \in 1..Len(s) |->
        IF ~is_alpha(s[i]) THEN s[i]
        ELSE IF i > 1 /\ is_alpha(s[i - 1]) THEN lower_char(s[i])
        ELSE upper_char(s[i])]

\* l.split("Administrative", 1)[1]
after_administrative(l) ==
    SubSeq(l, find(l, <<"A","d","m","i","n","i","s","t","r","a","t","i","v","e">>) + Len(<<"A","d","m","i","n","i","s","t","r","a","t","i","v","e">>), Len(l))

\* the section suffix of a line holding the administrative-unit phrase
sezione_of(lines, i) ==
    LET suf == strip(after_administrative(lines[i])) IN
    IF lower(suf) \in { <<"n","r",".">>, <<"n","r">> }
    THEN title(suf \o <<" ">> \o (IF i + 1 <= Len(lines) THEN lines[i + 1] ELSE << >>))
    ELSE title(suf)

\* the loop over the lines, from line i with the values found so far
RECURSIVE scan_header(_, _, _, _)
scan_header(lines, i, comune, sezione) ==
    IF i > Len(lines) THEN <<comune, sezione>>
    ELSE LET l == lines[i]
             m == IF contains(l, <<"B","a","s","h","k","i","a">>) THEN bashkia_capture(l) ELSE None
             comune2  == IF m # None THEN title(m) ELSE comune
             sezione2 == IF contains(l, <<"N","j","ë","s","i","a"," ","A","d","m","i","n","i","s","t","r","a","t","i","v","e">>)
                            \/ contains(l, <<"N","j","e","s","i","a"," ","A","d","m","i","n","i","s","t","r","a","t","i","v","e">>)
                         THEN sezione_of(lines, i) ELSE sezione
         IN scan_header(lines, i + 1, comune2, sezione2)

extract_comune_sezione(blks) ==
    LET found == scan_header(line_texts(blks), 1, << >>, << >>)
    IN <<map_exonyms(found[1]), map_exonyms(found[2])>>

(***************************************************************************)
(* make_docx and the main flow                                             *)
(***************************************************************************)
\* the keys make_docx reads by subscript
DocxFields == {
    "Nome", "Cognome", "Numero personale", "Nome del padre", "Nome della madre",
    "Data di nascita", "Luogo di nascita", "Residenza", "Sesso", "Stato Civile",
    "Cittadinanza", "Cognome prima del matrimonio", "Data del rilascio" }

\* make_docx(data) returns a document: no data[key] raises
make_docx_ok(d) == DocxFields \subseteq DOMAIN d

\* bmap = {b["Id"]: b for b in blocks}: the last block of an id wins
build_bmap(blks) ==
    [id \in {blks[i].Id : i \in 1..Len(blks)} |->
        blks[CHOOSE i \in 1..Len(blks) :
                /\ blks[i].Id = id
                /\ \A k \in (i + 1)..Len(blks) : blks[k].Id # id]]

\* data.get(key, default).strip().replace(" ", "_")
name_part(d, key, default) ==
    replace(strip(IF key \in DOMAIN d THEN d[key] ELSE default), <<" ">>, <<"_">>)

\* datetime.today().strftime("%d-%m-%Y"), the day left open
today_str == <<"d","d","-","m","m","-","y","y","y","y">>

\* fname
file_name(d) ==
    name_part(d, "Nome", <<"N","o","m","e">>) \o <<"_">> \o name_part(d, "Cognome", <<"C","o","g","n","o","m","e">>)
        \o <<"_","C","e","r","t","i","f","i","c","a","t","o","_","d","i","_","N","a","s","c","i","t","a","_">> \o today_str

(***************************************************************************)
(* The block lists the analysis service answers with                       *)
(***************************************************************************)
WordBlock(id, text, top, height) ==
    [Id |-> id, BlockType |-> "WORD", Text |-> text,
     Geometry |-> [BoundingBox |-> [Top |-> top, Height |-> height]]]

LineBlock(id, text) ==
    [Id |-> id, BlockType |-> "LINE", Text |-> text,
     Geometry |-> [BoundingBox |-> [Top |-> 0, Height |-> 1]]]

\* the largest Top of a status label or mark
MaxTop == 2

Tops == 0..MaxTop

\* a label or a mark that is not on the page
Absent == 0 - 1

\* the printed status labels, as the words the analysis returns
LabelTexts == [
    plain |-> << <<"B","e","q","a","r","/","e">>, <<"M","a","r","t","u","a","r">>, <<"S","h","k","u","r","o","r","ë","z","u","a","r">>, <<"V","e","d","o","v","/","e">> >>,
    upper |-> << <<"B","E","Q","A","R">>, <<" ","I","-","M","A","R","T","U","A","R"," ">>, <<"S","H","K","U","R","O","R",".">>, <<"V","E","D","O","V","Ë">> >> ]

(* The WORD blocks of the status box.  tops[k] is the Top of the label of   *)
(* status k, or Absent; mark is the Top of the handwritten mark, or Absent. *)
(* The variants: "plain"; "upper" (upper-case labels, a padded "X." mark of *)
(* another height); "dup_label" (a second WORD of the divorced label,       *)
(* elsewhere, after the others); "dup_mark" (a near-miss "xx" before the    *)
(* mark and a second mark, elsewhere, after it).  A LINE holding every      *)
(* fragment and a mark comes first.  order "rev" reverses the list.         *)
stato_words(tops, mark, variant, order) ==
    LET texts  == IF variant = "upper" THEN LabelTexts.upper ELSE LabelTexts.plain
        other(t) == (t + 1) % (MaxTop + 1)
        labels == SelectSeq([k \in 1..4 |-> WordBlock(0, texts[k], tops[k - 1], 2)],
                            LAMBDA w : w.Geometry.BoundingBox.Top # Absent)
        dupl   == IF variant = "dup_label"
                  THEN << WordBlock(0, <<"i"," ","s","h","k","u","r","o","r","ë","z","u","a","r">>, other(tops[2]), 2) >>
                  ELSE << >>
        marks  == IF mark = Absent THEN << >>
                  ELSE IF variant = "upper" THEN << WordBlock(0, <<" ","X","."," ">>, mark, 4) >>
                  ELSE IF variant = "dup_mark"
                  THEN << WordBlock(0, <<"x","x">>, other(mark), 2),
                          WordBlock(0, <<"x",",">>, mark, 2),
                          WordBlock(0, <<"x">>, other(mark), 2) >>
                  ELSE << WordBlock(0, <<"x">>, mark, 2) >>
        line   == << LineBlock(0, <<"b","e","q","a","r"," ","m","a","r","t","u","a","r"," ","s","h","k","u","r","o","r"," ","v","e","d","o","v">>), LineBlock(0, <<"x">>) >>
        seq    == line \o labels \o dupl \o marks
        n      == Len(seq)
    IN [i \in 1..n |->
           [(IF order = "rev" THEN seq[n + 1 - i] ELSE seq[i]) EXCEPT !.Id = 500 + i]]

StatoVariants == {"plain", "upper", "dup_label", "dup_mark"}

StatoInputs ==
    { stato_words(tops, mark, variant, order) :
        tops \in [0..3 -> Tops \cup {Absent}], mark \in Tops \cup {Absent},
        variant \in StatoVariants, order \in {"fwd", "rev"} }

Genders == { << >>, <<"F","e","m","m","i","n","i","l","e">>, <<"m","a","s","c","h","i","o">> }

(* The LINE blocks of the header and of the seal.                          *)
LineKinds == [
    marker |-> <<"V","u","l","o","s","u","r"," ","e","l","e","k","t","r","o","n","i","k","i","s","h","t"," ","n","g","a"," ","D","r","e","j","t","o","r","i","a">>,
    dated  |-> <<"V","U","L","O","S","U","R"," ","E","L","E","K","T","R","O","N","I","K","I","S","H","T"," ","2","0","2","1","/","0","1","/","3","1">>,
    date1  |-> <<" ","D","a","t","ë",":"," ","2","0","2","3","/","0","5","/","1","0"," ">>,
    date2  |-> <<"d","a","t","e"," ","2","0","2","4","/","0","2","/","2","9"," ","1","0",":","1","5">>,
    hash   |-> <<"0","1","2","3","4","5","6","7","8","9","a","b","c","d","e","f","A","B","C","D","E","F","0","1","2","3","4","5","6","7","8","9">>,
    short  |-> <<"0","1","2","3","4","5","6","7","8","9","a","b","c","d","e","f","A","B","C","D","E","F","0","1","2","3","4">>,
    text   |-> <<"T","i","r","a","n","ë">> ]

\* the largest number of LINE blocks of a seal input
MaxLines == 5

\* the blocks of the lines of the given kinds, after a WORD that reads like a marker and a hash
line_blocks(kinds) ==
    << WordBlock(300, LineKinds.marker, 0, 2) >> \o
    [i \in 1..Len(kinds) |-> LineBlock(300 + i, LineKinds[kinds[i]])]

SealInputs ==
    { line_blocks(kinds) : kinds \in UNION { [1..n -> DOMAIN LineKinds] : n \in 0..MaxLines } }

(* The texts handed to the place normaliser: up to MaxPieces pieces, one   *)
(* after the other.                                                        *)
Pieces == { <<"T","i","r","a","n","ë">>, <<"T","I","R","A","N","E">>, <<"V","l","o","r","ë">>, <<"D","u","r","r","ë","s">>, <<"s","h","k","o","d","e","r">>, <<"T","i","r","a","n","a">>,
            <<" ">>, <<"-">>, <<"s">> }

\* the largest number of pieces of a place text
MaxPieces == 3

RECURSIVE concat(_)
concat(parts) == IF parts = << >> THEN << >> ELSE Head(parts) \o concat(Tail(parts))

ExonymInputs ==
    { concat(ps) : ps \in UNION { [1..n -> Pieces] : n \in 0..MaxPieces } } \cup {None}

(* The table of a certificate.  words[r] is the list of the words of the   *)
(* value cell of row r, or None when the row has no cell; the rows of      *)
(* LabelRows have a label cell in column 1 too.  The TABLE block has id 1, *)
(* the cell of row r and column c id 100 + 10 r + c, and its word j id     *)
(* 1000 + 100 r + 10 c + j.                                                *)
CellId(r, c) == 100 + 10 * r + c
CellWordId(r, c, j) == 1000 + 100 * r + 10 * c + j

LabelRows == {2, 10}

\* the largest number of words of a cell
MaxCellWords == 5

\* the cells of the table, row by row: [r, c, words]
grid_cells(words) ==
    SelectSeq([n \in 1..28 |->
                  LET r == (n + 1) \div 2
                      c == 2 - (n % 2)
                  IN [r |-> r, c |-> c,
                      words |-> IF words[r] = None \/ (c = 1 /\ r \notin LabelRows) THEN None
                                ELSE IF c = 1 THEN << <<"E","t","i","k","e","t","a">> >>
                                ELSE words[r]]],
              LAMBDA cell : cell.words # None)

cell_block(cell) ==
    LET base == [Id |-> CellId(cell.r, cell.c), BlockType |-> "CELL",
                 RowIndex |-> cell.r, ColumnIndex |-> cell.c]
    IN IF cell.words = << >> THEN base
       ELSE base @@ [Relationships |->
                <<[Type |-> "CHILD",
                   Ids |-> [j \in 1..Len(cell.words) |-> CellWordId(cell.r, cell.c, j)]]>>]

\* the WORD blocks of the cells, cell by cell
cell_word_blocks(cells) ==
    LET slots == [n \in 1..(Len(cells) * MaxCellWords) |->
                     [cell |-> cells[(n - 1) \div MaxCellWords + 1],
                      j    |-> ((n - 1) % MaxCellWords) + 1]]
        used  == SelectSeq(slots, LAMBDA s : s.j <= Len(s.cell.words))
    IN [n \in 1..Len(used) |->
           WordBlock(CellWordId(used[n].cell.r, used[n].cell.c, used[n].j),
                     used[n].cell.words[used[n].j], 0, 2)]

\* the blocks of a table of the given cells; extra_ids are child ids of no block
table_blocks(cells, extra_ids) ==
    << [Id |-> 1, BlockType |-> "TABLE",
        Relationships |->
            <<[Type |-> "CHILD",
               Ids |-> [k \in 1..Len(cells) |-> CellId(cells[k].r, cells[k].c)] \o extra_ids]>>] >>
    \o [k \in 1..Len(cells) |-> cell_block(cells[k])]
    \o cell_word_blocks(cells)

\* the value column of a complete certificate, by row
DefaultWords == [r \in 1..14 |->
    CASE r = 1  -> << <<"C","e","r","t","i","f","i","k","a","t","ë">>, <<"L","i","n","d","j","e","j","e">> >>
      [] r = 2  -> << <<"A","r","b","e","n">> >>
      [] r = 3  -> << <<"H","o","x","h","a">> >>
      [] r = 4  -> << <<"J","1","2","3","4","5","6","7","8","A">> >>
      [] r = 5  -> << <<"I","l","i","r">> >>
      [] r = 6  -> << <<"M","i","r","a">> >>
      [] r = 7  -> << <<"0","1","/","0","2","/","1","9","9","0">> >>
      [] r = 8  -> << <<"V","l","o","r","ë">> >>
      [] r = 9  -> << <<"N","d",".">>, <<"5">>, <<"A","p",".">>, <<"7">>, <<"T","i","r","a","n","ë">> >>
      [] r = 10 -> << <<"F">> >>
      [] r = 11 -> << <<"-">> >>
      [] r = 12 -> << <<"A","L","B">> >>
      [] r = 13 -> << <<"H","o","x","h","a">> >>
      [] r = 14 -> << <<"1","0","/","0","5","/","2","0","2","3">> >> ]

ValueRows == 2..14

(* The shapes of the table: "none" (no TABLE block), "full", "norels" (a   *)
(* TABLE without relationships), "dangling" (a child id of no block),      *)
(* <<"absent", r>> (no cell in row r) and <<"noword", r>> (the value cell  *)
(* of row r has no WORD child).                                            *)
TableShapes ==
    {<<"none", 0>>, <<"full", 0>>, <<"norels", 0>>, <<"dangling", 0>>}
    \cup ({"absent", "noword"} \X ValueRows)

table_of(shape, sesso, citt) ==
    LET words == [r \in 1..14 |->
                    IF shape[2] = r
                    THEN (IF shape[1] = "absent" THEN None ELSE << >>)
                    ELSE IF r = 10 THEN sesso
                    ELSE IF r = 12 THEN citt
                    ELSE DefaultWords[r]]
    IN CASE shape[1] = "none"     -> << >>
         [] shape[1] = "norels"   -> << [Id |-> 1, BlockType |-> "TABLE"] >>
         [] shape[1] = "dangling" -> table_blocks(grid_cells(words), <<99>>)
         [] OTHER                 -> table_blocks(grid_cells(words), << >>)

SessoWords == { << <<"M">> >>, << <<"F">> >>, << <<"m">> >>, << <<"f">> >>, << >>,
                << <<"F","e","m","m","i","n","a">> >>, << <<"U">> >> }

CittWords == { << <<"A","L","B">> >>, << <<"A","l","b","a","n","i","a">> >>, << <<"s","h","q","i","p","t","a","r","e">> >>, << <<"S","H","Q","I","P","T","A","R">> >>,
               << <<"I","T","A">> >>, << >>, << <<"A","L","B">>, <<"A","N","I","A">> >>, << <<"S","h","q","i","p","t","a","r","ë">> >> }

(* The status box of a certificate: no words at all, the four labels at    *)
(* Tops 0..3 without a mark, three labels and a mark, or the four labels   *)
(* and a mark at the Top of label k.                                       *)
StatoLayouts == {<<"none", 0>>, <<"nomark", 0>>, <<"three", 0>>} \cup ({"mark"} \X (0..3))

stato_of(layout) ==
    CASE layout[1] = "none"   -> << >>
      [] layout[1] = "nomark" -> stato_words([k \in 0..3 |-> k], Absent, "plain", "fwd")
      [] layout[1] = "three"  ->
            stato_words([k \in 0..3 |-> IF k = 3 THEN Absent ELSE k], 0, "plain", "fwd")
      [] OTHER -> stato_words([k \in 0..3 |-> k], layout[2], "plain", "fwd")

(* The lines of a certificate: none, a header and a complete seal, or a    *)
(* header and a seal with one marker only.                                 *)
LineLayouts == {"none", "sealed", "one_marker"}

HeaderLines == <<
    LineBlock(401, <<"B","a","s","h","k","i","a"," ","T","I","R","A","N","Ë">>),
    LineBlock(402, <<"N","j","ë","s","i","a"," ","A","d","m","i","n","i","s","t","r","a","t","i","v","e"," ","N","r",".">>),
    LineBlock(403, <<"5">>) >>

lines_of(layout) ==
    CASE layout = "none"   -> << >>
      [] layout = "sealed" ->
            HeaderLines \o line_blocks(<<"marker", "date1", "marker", "date2", "hash">>)
      [] OTHER ->
            HeaderLines \o line_blocks(<<"marker", "date1", "hash">>)

document(shape, sesso, citt, stato, lines) ==
    table_of(shape, sesso, citt) \o stato_of(stato) \o lines_of(lines)

\* the certificates submitted: every table shape, and every sex code and citizenship
Documents ==
    { document(shape, DefaultWords[10], DefaultWords[12], stato, lines) :
        shape \in TableShapes, stato \in StatoLayouts, lines \in LineLayouts }
    \cup
    { document(<<"full", 0>>, sesso, citt, stato, "sealed") :
        sesso \in SessoWords, citt \in CittWords, stato \in {<<"none", 0>>, <<"mark", 2>>} }

(***************************************************************************)
(* Direct calls of the civil-status resolver                               *)
(***************************************************************************)
InitStato ==
    /\ pc = "call"
    /\ blocks \in StatoInputs
    /\ bmap = << >>
    /\ arg \in Genders
    /\ ret = None
    /\ data = << >>
    /\ download = None
    /\ uploaded_files = << >>
    /\ zipf = << >>

CallStato ==
    /\ pc = "call"
    /\ ret' = get_stato_from_vertical_boxes(blocks, bmap, arg)
    /\ pc' = "returned"
    /\ UNCHANGED <<blocks, bmap, arg, data, download>>
    /\ UNCHANGED <<uploaded_files, zipf>>

NextStato == CallStato

SpecStato == InitStato /\ [][NextStato]_vars

(***************************************************************************)
(* Direct calls of the seal footer                                         *)
(***************************************************************************)
InitSeal ==
    /\ pc = "call"
    /\ blocks \in SealInputs
    /\ bmap = << >>
    /\ arg = None
    /\ ret = None
    /\ data = << >>
    /\ download = None
    /\ uploaded_files = << >>
    /\ zipf = << >>

CallSeal ==
    /\ pc = "call"
    /\ ret' = extract_seal_footer(blocks)
    /\ pc' = "returned"
    /\ UNCHANGED <<blocks, bmap, arg, data, download>>
    /\ UNCHANGED <<uploaded_files, zipf>>

NextSeal == CallSeal

SpecSeal == InitSeal /\ [][NextSeal]_vars

(***************************************************************************)
(* Direct calls of the place normaliser                                    *)
(***************************************************************************)
InitExonym ==
    /\ pc = "call"
    /\ blocks = << >>
    /\ bmap = << >>
    /\ arg \in ExonymInputs
    /\ ret = None
    /\ data = << >>
    /\ download = None
    /\ uploaded_files = << >>
    /\ zipf = << >>

CallMapExonyms ==
    /\ pc = "call"
    /\ ret' = map_exonyms(arg)
    /\ pc' = "returned"
    /\ UNCHANGED <<blocks, bmap, arg, data, download>>
    /\ UNCHANGED <<uploaded_files, zipf>>

NextExonym == CallMapExonyms

SpecExonym == InitExonym /\ [][NextExonym]_vars

(***************************************************************************)
(* The main flow for one uploaded certificate                              *)
(***************************************************************************)
Init ==
    /\ pc = "idle"
    /\ blocks = << >>
    /\ bmap = << >>
    /\ arg = None
    /\ ret = None
    /\ data = << >>
    /\ download = None
    /\ uploaded_files = << >>
    /\ zipf = << >>

\* textract.analyze_document answers; the block index is built
Analyze ==
    /\ pc = "idle"
    /\ \E doc \in Documents :
          /\ blocks' = doc
          /\ bmap' = build_bmap(doc)
    /\ pc' = "analyzed"
    /\ UNCHANGED <<arg, ret, data, download>>
    /\ UNCHANGED <<uploaded_files, zipf>>

\* data = extract_table_fields(blocks, bmap); a KeyError ends the run
ExtractFields ==
    /\ pc = "analyzed"
    /\ LET d == extract_table_fields(blocks, bmap) IN
       IF d = KeyError
       THEN pc' = "extract_failed" /\ data' = data
       ELSE pc' = "extracted" /\ data' = d
    /\ UNCHANGED <<blocks, bmap, arg, ret, download>>
    /\ UNCHANGED <<uploaded_files, zipf>>

\* data["Comune"], data["Sezione"] = extract_comune_sezione(blocks)
ExtractHeader ==
    /\ pc = "extracted"
    /\ LET cs == extract_comune_sezione(blocks) IN
       data' = [k \in DOMAIN data \cup {"Comune", "Sezione"} |->
                   IF k = "Comune" THEN cs[1]
                   ELSE IF k = "Sezione" THEN cs[2]
                   ELSE data[k]]
    /\ pc' = "ready"
    /\ UNCHANGED <<blocks, bmap, arg, ret, download>>
    /\ UNCHANGED <<uploaded_files, zipf>>

\* doc_buf = make_docx(data); a KeyError ends the run
MakeDocx ==
    /\ pc = "ready"
    /\ pc' = IF make_docx_ok(data) THEN "rendered" ELSE "render_failed"
    /\ UNCHANGED <<blocks, bmap, arg, ret, data, download>>
    /\ UNCHANGED <<uploaded_files, zipf>>

\* st.download_button(..., file_name=fname)
Download ==
    /\ pc = "rendered"
    /\ download' = file_name(data)
    /\ pc' = "done"
    /\ UNCHANGED <<blocks, bmap, arg, ret, data>>
    /\ UNCHANGED <<uploaded_files, zipf>>

\* the script runs again on the next interaction
Rerun ==
    /\ pc \in {"done", "extract_failed", "render_failed"}
    /\ pc' = "idle"
    /\ blocks' = << >>
    /\ bmap' = << >>
    /\ data' = << >>
    /\ download' = None
    /\ UNCHANGED <<arg, ret>>
    /\ UNCHANGED <<uploaded_files, zipf>>

Next == Analyze \/ ExtractFields \/ ExtractHeader \/ MakeDocx \/ Download \/ Rerun

Spec == Init /\ [][Next]_vars

(***************************************************************************)
(* Direct calls of extract_table_fields on tables with a residence cell    *)
(***************************************************************************)
(* The words of a residence cell: the abbreviations and unit names the     *)
(* clean-up rewrites, words that only begin like one of them, and words    *)
(* where two of them meet.                                                 *)
ResidenceWords == {
    <<"N","d",".">>, <<"N","d","ë","r","t","e","s","a">>, <<"H",".">>, <<"A","p",".">>, <<"N","j","ë","s","i","a">>, <<"N","J","Ë","S","I","A">>, <<"N","j","e","s","i","a">>, <<"N","J","E","S","I","A">>,
    <<"A","d","m","i","n","i","s","t","r","a","t","i","v","e">>, <<"A","D","M","I","N","I","S","T","R","A","T","I","V","E">>, <<"R","r","u","g","a">>, <<"5">>, <<"T","i","r","a","n","ë">>,
    <<"N","J","E","S","I","A","D","M","I","N","I","S","T","R","A","T","I","V","E">>, <<"A","D","M","I","N","I","S","T","R","A","T","I","V","N","d",".">> }

\* the largest number of words of a residence cell
MaxResidenceWords == 2

\* a table of three value cells: the birth place, the residence, the maiden name
residence_document(words9) ==
    LET words == [r \in 1..14 |->
                    CASE r = 8  -> << <<"N","d",".">>, <<"3">>, <<"H",".">>, <<"V","l","o","r","ë">> >>
                      [] r = 9  -> words9
                      [] r = 13 -> << <<"N","j","ë","s","i","a">>, <<"A","d","m","i","n","i","s","t","r","a","t","i","v","e">>, <<"A","p",".">> >>
                      [] OTHER  -> None]
    IN table_blocks(grid_cells(words), << >>)

ResidenceDocuments ==
    { residence_document(ws) :
        ws \in UNION { [1..n -> ResidenceWords] : n \in 0..MaxResidenceWords } }

InitResidence ==
    /\ pc = "call"
    /\ blocks \in ResidenceDocuments
    /\ bmap = build_bmap(blocks)
    /\ arg = None
    /\ ret = None
    /\ data = << >>
    /\ download = None
    /\ uploaded_files = << >>
    /\ zipf = << >>

CallExtractTableFields ==
    /\ pc = "call"
    /\ ret' = extract_table_fields(blocks, bmap)
    /\ pc' = "returned"
    /\ UNCHANGED <<blocks, bmap, arg, data, download, uploaded_files, zipf>>

NextResidence == CallExtractTableFields

SpecResidence == InitResidence /\ [][NextResidence]_vars

\* a literal text as a pattern: one element per character, no \b, no flag
literal_pattern(old) ==
    [elems |-> [j \in 1..Len(old) |-> Lit(old[j])], bounded |-> FALSE, ignorecase |-> FALSE]

\* the steps of the clean-up, in the order they are applied: pattern, replacement
residence_steps == <<
    <<PatNd,                              <<"E","d",".">>>>,
    <<literal_pattern(<<"H",".">>),             <<"I","n","t",".">>>>,
    <<literal_pattern(<<"A","p",".">>),            <<"A","p","p",".">>>>,
    <<literal_pattern(<<"N","j","ë","s","i","a">>),         <<"S","e","z","i","o","n","e">>>>,
    <<literal_pattern(<<"A","d","m","i","n","i","s","t","r","a","t","i","v","e">>), <<"A","m","m","i","n","i","s","t","r","a","t","i","v","a">>>>,
    <<literal_pattern(<<"N","J","Ë","S","I","A">>),         <<"S","e","z","i","o","n","e">>>>,
    <<literal_pattern(<<"A","D","M","I","N","I","S","T","R","A","T","I","V","E">>), <<"A","m","m","i","n","i","s","t","r","a","t","i","v","a">>>>,
    <<literal_pattern(<<"N","J","E","S","I","A">>),         <<"S","e","z","i","o","n","e">>>>,
    <<literal_pattern(<<"N","j","e","s","i","a">>),         <<"S","e","z","i","o","n","e">>>> >>

(* One step applied from position i to a text whose characters carry a     *)
(* mark, TRUE for a character an earlier step wrote: the text and marks    *)
(* after the step, and whether the step rewrote a marked character.        *)
RECURSIVE step_from(_, _, _, _, _)
step_from(pat, repl, s, made, i) ==
    IF i > Len(s) THEN [s |-> << >>, made |-> << >>, rewrote |-> FALSE]
    ELSE IF re_match_at(pat, s, i)
         THEN LET rest == step_from(pat, repl, s, made, i + Len(pat.elems))
              IN [s       |-> repl \o rest.s,
                  made    |-> [j \in 1..Len(repl) |-> TRUE] \o rest.made,
                  rewrote |-> rest.rewrote
                              \/ \E j \in i..(i + Len(pat.elems) - 1) : made[j]]
         ELSE LET rest == step_from(pat, repl, s, made, i + 1)
              IN [s       |-> <<s[i]>> \o rest.s,
                  made    |-> <<made[i]>> \o rest.made,
                  rewrote |-> rest.rewrote]

\* the steps from step k on, applied one after the other
RECURSIVE run_steps(_, _, _, _)
run_steps(k, s, made, rewrote) ==
    IF k > Len(residence_steps) THEN [s |-> s, made |-> made, rewrote |-> rewrote]
    ELSE LET r == step_from(residence_steps[k][1], residence_steps[k][2], s, made, 1)
         IN run_steps(k + 1, r.s, r.made, rewrote \/ r.rewrote)

\* the clean-up of a residence text, with the marks
residence_trace(res_raw) ==
    run_steps(1, res_raw, [j \in 1..Len(res_raw) |-> FALSE], FALSE)

(***************************************************************************)
(* The main flow for several certificates submitted together               *)
(***************************************************************************)
(* The certificates of a submission.  Their blocks share ids from one      *)
(* certificate to the other, and their tables differ: complete, without    *)
(* the surname row, none at all, with a child id of no block, and with     *)
(* three value cells only.                                                 *)
MultiDocuments == {
    document(<<"full", 0>>, << <<"F">> >>, << <<"A","L","B">> >>, <<"mark", 2>>, "sealed"),
    document(<<"absent", 3>>, << <<"M">> >>, << <<"I","T","A">> >>, <<"none", 0>>, "one_marker"),
    document(<<"none", 0>>, << >>, << >>, <<"mark", 0>>, "sealed"),
    document(<<"dangling", 0>>, << <<"F">> >>, << <<"A","L","B">> >>, <<"none", 0>>, "none"),
    residence_document(<< <<"R","r","u","g","a">>, <<"D","u","r","r","ë","s">> >>) }

\* the largest number of files of a submission
MaxFiles == 3

\* len(uploaded_files) == 1 takes the single-file branch
MinFiles == 2

\* the position in uploaded_files of the file the loop is at
file_index == Len(zipf) + 1

\* f"certificati_tradotti_{datetime.today().strftime('%Y-%m-%d')}.zip", the day left open
zip_name == <<"c","e","r","t","i","f","i","c","a","t","i","_","t","r","a","d","o","t","t","i","_","y","y","y","y","-","m","m","-","d","d",".","z","i","p">>

InitMulti ==
    /\ pc = "next_file"
    /\ uploaded_files \in UNION { [1..n -> MultiDocuments] : n \in MinFiles..MaxFiles }
    /\ zipf = << >>
    /\ blocks = << >>
    /\ bmap = << >>
    /\ arg = None
    /\ ret = None
    /\ data = << >>
    /\ download = None

\* for uploaded_file in uploaded_files: textract answers; the block index is built
AnalyzeFile ==
    /\ pc = "next_file"
    /\ file_index <= Len(uploaded_files)
    /\ blocks' = uploaded_files[file_index]
    /\ bmap' = build_bmap(uploaded_files[file_index])
    /\ pc' = "file_analyzed"
    /\ UNCHANGED <<arg, ret, data, download, uploaded_files, zipf>>

\* variant of ExtractFieldsOfFile: the dict of the file before is updated, not replaced
ExtractFieldsOfFile_update ==
    /\ pc = "file_analyzed"
    /\ LET d == extract_table_fields(blocks, bmap) IN
       IF d = KeyError
       THEN pc' = "zip_failed" /\ data' = data
       ELSE pc' = "file_extracted" /\ data' = d @@ data
    /\ UNCHANGED <<blocks, bmap, arg, ret, download, uploaded_files, zipf>>

\* data = extract_table_fields(blocks, bmap); a KeyError ends the run
ExtractFieldsOfFile ==
    /\ pc = "file_analyzed"
    /\ LET d == extract_table_fields(blocks, bmap) IN
       IF d = KeyError
       THEN pc' = "zip_failed" /\ data' = data
       ELSE pc' = "file_extracted" /\ data' = d
    /\ UNCHANGED <<blocks, bmap, arg, ret, download, uploaded_files, zipf>>

\* data["Comune"], data["Sezione"] = extract_comune_sezione(blocks)
ExtractHeaderOfFile ==
    /\ pc = "file_extracted"
    /\ LET cs == extract_comune_sezione(blocks) IN
       data' = [k \in DOMAIN data \cup {"Comune", "Sezione"} |->
                   IF k = "Comune" THEN cs[1]
                   ELSE IF k = "Sezione" THEN cs[2]
                   ELSE data[k]]
    /\ pc' = "file_ready"
    /\ UNCHANGED <<blocks, bmap, arg, ret, download, uploaded_files, zipf>>

\* doc_buf = make_docx(data); a KeyError ends the run
MakeDocxOfFile ==
    /\ pc = "file_ready"
    /\ pc' = IF make_docx_ok(data) THEN "file_rendered" ELSE "zip_failed"
    /\ UNCHANGED <<blocks, bmap, arg, ret, data, download, uploaded_files, zipf>>

\* zipf.writestr(f"{fname}.{ext}", doc_buf.getvalue()): the entry is the rendering of data
WriteStr ==
    /\ pc = "file_rendered"
    /\ zipf' = Append(zipf, [name |-> file_name(data), rendered |-> data])
    /\ pc' = "next_file"
    /\ UNCHANGED <<blocks, bmap, arg, ret, data, download, uploaded_files>>

\* after the loop: st.download_button(..., file_name=...zip)
DownloadZip ==
    /\ pc = "next_file"
    /\ file_index > Len(uploaded_files)
    /\ download' = zip_name
    /\ pc' = "zip_done"
    /\ UNCHANGED <<blocks, bmap, arg, ret, data, uploaded_files, zipf>>

NextMulti ==
    \/ AnalyzeFile
    \/ ExtractFieldsOfFile
    \/ ExtractHeaderOfFile
    \/ MakeDocxOfFile
    \/ WriteStr
    \/ DownloadZip

SpecMulti == InitMulti /\ [][NextMulti]_vars

(***************************************************************************)
(* The claims                                                              *)
(***************************************************************************)
TableKeys == DOMAIN FieldRow \cup {"Sesso", "Stato Civile", "ElectronicSeal"}

RecordKeys == TableKeys \cup {"Comune", "Sezione"}

HasTable == \E i \in 1..Len(blocks) : blocks[i].BlockType = "TABLE"

\* the WORD blocks of the list, in block order
WordsOf(blks) == SelectSeq(blks, LAMBDA b : b.BlockType = "WORD")

\* C1: whenever a Record is handed to the renderer it holds all sixteen keys, each
\* mapped to a string, so that make_docx reads no missing key.
C1_RecordHasEveryKey ==
    /\ pc = "ready" => (RecordKeys \subseteq DOMAIN data /\ \A k \in RecordKeys : data[k] # None)
    /\ pc # "render_failed"

\* C2: for a block list without a TABLE block extract_table_fields does not fail and
\* returns the empty mapping, whatever WORD and LINE blocks the list holds.
C2_NoTableGivesEmptyMapping ==
    ~HasTable =>
        /\ pc # "extract_failed"
        /\ pc = "extracted" => DOMAIN data = {}

C2_Witness ==
    /\ pc = "extracted"
    /\ ~HasTable
    /\ data = << >>
    /\ \E i \in 1..Len(blocks) : blocks[i].BlockType = "WORD" /\ blocks[i].Text = <<"x">>
    /\ \E i \in 1..Len(blocks) :
          blocks[i].BlockType = "LINE" /\ contains(lower(blocks[i].Text), SealMarker)

\* the text t holds the fragment frag, whatever the case of its letters
HoldsFragment(t, frag) ==
    \E p \in 1..Len(t) :
        /\ p + Len(frag) - 1 <= Len(t)
        /\ \A j \in 1..Len(frag) : lower_char(t[p + j - 1]) = frag[j]

\* the positions in the WORD list of the words holding the fragment of status k
LabelPositions(blks, k) ==
    LET words == WordsOf(blks) IN
    {i \in 1..Len(words) : HoldsFragment(words[i].Text, fragments[k + 1][1])}

\* the positions in the WORD list of the handwritten marks
MarkPositions(blks) ==
    LET words == WordsOf(blks) IN
    {i \in 1..Len(words) : lower(strip(words[i].Text)) \in { <<"x">>, <<"x",".">>, <<"x",",">> }}

FragmentsFound(blks) == {k \in 0..3 : LabelPositions(blks, k) # {}}

Least(S) == CHOOSE i \in S : \A j \in S : i <= j

\* twice the vertical centre of the first WORD holding the fragment of status k
LabelCentre(blks, k) ==
    LET bb == WordsOf(blks)[Least(LabelPositions(blks, k))].Geometry.BoundingBox
    IN 2 * bb.Top + bb.Height

\* twice the vertical centre of the first mark
MarkCentre(blks) ==
    LET bb == WordsOf(blks)[Least(MarkPositions(blks))].Geometry.BoundingBox
    IN 2 * bb.Top + bb.Height

\* the distance of each label centre to the mark centre, and the centre, by status
Distances(blks) ==
    LET x == MarkCentre(blks) IN
    [k \in 0..3 |->
        LET c == LabelCentre(blks, k)
        IN [d |-> IF c < x THEN x - c ELSE c - x, c |-> c]]

Resolvable(blks) == Cardinality(FragmentsFound(blks)) = 4 /\ MarkPositions(blks) # {}

\* the statuses nearest to the mark, less those with a label as near of a smaller centre
NearestLowest(blks) ==
    LET ds == (0 :> Distances(blks)[0]) @@ (1 :> Distances(blks)[1]) @@
              (2 :> Distances(blks)[2]) @@ (3 :> Distances(blks)[3])
    IN {k \in 0..3 :
           \A j \in 0..3 :
               /\ ds[k].d <= ds[j].d
               /\ ds[j].d = ds[k].d => ds[k].c <= ds[j].c}

\* C3: the resolver returns the sentinel exactly when fewer than four fragments are
\* found or no mark is found; with fewer than four fragments it does so whether or not
\* a mark exists and whatever the gender.
C3_SentinelIffUnresolved ==
    pc = "returned" =>
        /\ ret = StatoNonRiconosciuto
              <=> (Cardinality(FragmentsFound(blocks)) < 4 \/ MarkPositions(blocks) = {})
        /\ Cardinality(FragmentsFound(blocks)) < 4 => ret = StatoNonRiconosciuto

C3_Witness ==
    /\ pc = "returned"
    /\ Cardinality(FragmentsFound(blocks)) = 3
    /\ MarkPositions(blocks) # {}
    /\ arg = <<"F","e","m","m","i","n","i","l","e">>
    /\ ret = StatoNonRiconosciuto

\* the forms the resolver may return for status k
FormsOf(k) == {male[k + 1], female[k + 1], male[k + 1] \o <<" ","/"," ">> \o female[k + 1]}

\* C4: with the four fragments and a mark found, the status returned is one whose label
\* centre is nearest to the centre of the first mark, and among the labels as near, one
\* of the smallest centre.
C4_NearestLabelWins ==
    (pc = "returned" /\ Resolvable(blocks)) =>
        \E k \in NearestLowest(blocks) : ret \in FormsOf(k)

\* a tie between a label above the mark and a label below it, settled for the upper one
C4_Witness ==
    /\ pc = "returned"
    /\ Resolvable(blocks)
    /\ \E k \in NearestLowest(blocks), j \in 0..3 :
          /\ ret \in FormsOf(k)
          /\ Distances(blocks)[j].d = Distances(blocks)[k].d
          /\ Distances(blocks)[k].c < Distances(blocks)[j].c

\* the form the claim gives for status k and a gender string
ExpectedForm(k, g) ==
    IF g # << >> /\ g[1] \in {"f", "F"} THEN female[k + 1]
    ELSE IF g # << >> /\ g[1] \in {"m", "M"} THEN male[k + 1]
    ELSE male[k + 1] \o <<" ","/"," ">> \o female[k + 1]

GenderSamples ==
    { << >>, <<"F">>, <<"f">>, <<"F","e","m","m","i","n","i","l","e">>, <<"M">>, <<"m","a","s","c","h","i","o">>, <<"M","A","S","C","H","I","O">>, <<"U">>, <<" ","F">>, <<"a","l","t","r","o">> }

\* C5: a resolved status k is returned in the feminine form for a gender starting with
\* f or F, in the masculine form for one starting with m or M, and as "masculine /
\* feminine" for any other gender; extract_table_fields passes the mapped Sesso value,
\* so a mark nearest the divorced label with Sesso "Femminile" gives "Divorziata".
C5_GenderedForm ==
    /\ (pc = "analyzed" /\ Resolvable(blocks)) =>
          LET nearest == NearestLowest(blocks) IN
          \A g \in GenderSamples :
              \E k \in nearest :
                  get_stato_from_vertical_boxes(blocks, bmap, g) = ExpectedForm(k, g)
    /\ (pc = "extracted" /\ HasTable /\ Resolvable(blocks)) =>
          LET nearest == NearestLowest(blocks) IN
          /\ \E k \in nearest : data["Stato Civile"] = ExpectedForm(k, data["Sesso"])
          /\ (data["Sesso"] = <<"F","e","m","m","i","n","i","l","e">> /\ 2 \in nearest)
                => data["Stato Civile"] = <<"D","i","v","o","r","z","i","a","t","a">>

C5_Witness ==
    /\ pc = "extracted"
    /\ HasTable
    /\ Resolvable(blocks)
    /\ 2 \in NearestLowest(blocks)
    /\ data["Sesso"] = <<"F","e","m","m","i","n","i","l","e">>
    /\ data["Stato Civile"] = <<"D","i","v","o","r","z","i","a","t","a">>

\* the cells of row r and column 2 the first TABLE refers to
ValueCells(r) ==
    LET tbl  == blocks[find_table(blocks)]
        cids == child_ids(relationships(tbl), 1)
    IN {bmap[cids[k]] : k \in {k \in 1..Len(cids) :
            /\ cids[k] \in DOMAIN bmap
            /\ bmap[cids[k]].BlockType = "CELL"
            /\ bmap[cids[k]].RowIndex = r
            /\ bmap[cids[k]].ColumnIndex = 2}}

\* the text of the row r / column 2 cell of the grid: its words, joined by spaces
GridText(r) ==
    rows_get(fill_rows(child_ids(relationships(blocks[find_table(blocks)]), 1), 1, bmap, << >>),
             r, 2)

\* C6: Sesso is "Maschio" for the code "M", "Femminile" for the code "F", and for any
\* other row 10 / column 2 cell value the cell value itself, unchanged.
C6_SessoVerbatim ==
    (pc = "extracted" /\ HasTable) =>
        data["Sesso"] = (IF GridText(10) = <<"M">> THEN <<"M","a","s","c","h","i","o">>
                         ELSE IF GridText(10) = <<"F">> THEN <<"F","e","m","m","i","n","i","l","e">>
                         ELSE GridText(10))

\* the texts of the LINE blocks, in block order
SealLines == line_texts(blocks)

\* the positions of the lines holding the seal marker, whatever the case of its letters
MarkerPositions ==
    {i \in 1..Len(SealLines) : HoldsFragment(SealLines[i], SealMarker)}

\* the position of the second marker line
SecondMarker ==
    CHOOSE i \in MarkerPositions : Cardinality({j \in MarkerPositions : j < i}) = 1

\* the positions, from the second marker line on, of the lines holding a date
DatePositions ==
    {i \in SecondMarker..Len(SealLines) : has_date(strip(SealLines[i]))}

\* the positions, from the second marker line on, of the lines that are a hash
HashPositions ==
    {i \in SecondMarker..Len(SealLines) : is_hash(strip(SealLines[i]))}

\* the number of line breaks of a text
LineBreaks(t) == Cardinality({i \in 1..Len(t) : t[i] = "\n"})

\* C7: the seal footer is the empty string when fewer than two lines hold the marker or
\* when, from the second marker line on, no line holds a date or no line is a hash;
\* otherwise it is exactly four lines: the two fixed lines, "In data " and the first date
\* line from the second marker on without its Date/Datë label, and the first hash line
\* from the second marker on.
C7_SealFooter ==
    pc = "returned" =>
        IF Cardinality(MarkerPositions) < 2 THEN ret = << >>
        ELSE IF DatePositions = {} \/ HashPositions = {} THEN ret = << >>
        ELSE /\ ret = <<"T","i","m","b","r","o"," ","e","l","e","t","t","r","o","n","i","c","o"," ","d","e","l","l","a"," ","D","i","r","e","z","i","o","n","e">> \o <<"\n">>
                      \o <<"G","e","n","e","r","a","l","e"," ","d","e","l","l","o"," ","S","t","a","t","o"," ","C","i","v","i","l","e">> \o <<"\n">>
                      \o <<"I","n"," ","d","a","t","a"," ">>
                      \o strip(strip_date_label(strip(SealLines[Least(DatePositions)])))
                      \o <<"\n">>
                      \o strip(SealLines[Least(HashPositions)])
             /\ LineBreaks(ret) = 3

\* a date line and a hash line before the second marker are passed over
C7_Witness ==
    /\ pc = "returned"
    /\ Cardinality(MarkerPositions) >= 2
    /\ \E i \in 1..(SecondMarker - 1) : has_date(strip(SealLines[i]))
    /\ \E i \in 1..(SecondMarker - 1) : is_hash(strip(SealLines[i]))
    /\ ret = <<"T","i","m","b","r","o"," ","e","l","e","t","t","r","o","n","i","c","o"," ","d","e","l","l","a"," ","D","i","r","e","z","i","o","n","e">> \o <<"\n">>
             \o <<"G","e","n","e","r","a","l","e"," ","d","e","l","l","o"," ","S","t","a","t","o"," ","C","i","v","i","l","e">> \o <<"\n">>
             \o <<"I","n"," ","d","a","t","a"," ","2","0","2","3","/","0","5","/","1","0">> \o <<"\n">>
             \o <<"0","1","2","3","4","5","6","7","8","9","a","b","c","d","e","f","A","B","C","D","E","F","0","1","2","3","4","5","6","7","8","9">>

\* C8: Cittadinanza is "Albanese" exactly when the row 12 / column 2 cell, trimmed and
\* upper-cased, is ALB, ALBANIA, SHQIPTARE or SHQIPTAR; any other cell value is kept.
C8_Cittadinanza ==
    (pc = "extracted" /\ HasTable) =>
        LET cell == GridText(12) IN
        /\ data["Cittadinanza"] =
              (IF upper(strip(cell)) \in { <<"A","L","B">>, <<"A","L","B","A","N","I","A">>, <<"S","H","Q","I","P","T","A","R","E">>, <<"S","H","Q","I","P","T","A","R">> }
               THEN <<"A","l","b","a","n","e","s","e">> ELSE cell)
        /\ cell \in { <<"A","L","B">>, <<"A","l","b","a","n","i","a">>, <<"s","h","q","i","p","t","a","r","e">>, <<"S","H","Q","I","P","T","A","R">> }
              => data["Cittadinanza"] = <<"A","l","b","a","n","e","s","e">>
        /\ cell = <<"I","T","A">> => data["Cittadinanza"] = <<"I","T","A">>

C8_Witness ==
    /\ pc = "extracted"
    /\ HasTable
    /\ GridText(12) = <<"s","h","q","i","p","t","a","r","e">>
    /\ data["Cittadinanza"] = <<"A","l","b","a","n","e","s","e">>

\* the rule list in the order given by a permutation of 1..4
Reordered(order) == [k \in 1..Len(EXONYM_RULES) |-> EXONYM_RULES[order[k]]]

\* C9: map_exonyms applied to its own result changes nothing, returns an empty or absent
\* input unchanged, and gives the same result whatever the order of the four rules.
C9_ExonymsIdempotent ==
    pc = "returned" =>
        /\ map_exonyms(ret) = ret
        /\ arg \in {None, << >>} => ret = arg
        /\ arg = <<"T","i","r","a","n","ë">> => ret = <<"T","i","r","a","n","a">>
        /\ arg = <<"T","i","r","a","n","a">> => ret = <<"T","i","r","a","n","a">>
        /\ \A order \in Permutations(1..Len(EXONYM_RULES)) :
              map_exonyms_with(Reordered(order), arg) = ret

C9_Witness ==
    /\ pc = "returned"
    /\ arg = <<"T","i","r","a","n","ë"," ","V","l","o","r","ë">>
    /\ ret = <<"T","i","r","a","n","a"," ","V","a","l","o","n","a">>
    /\ map_exonyms(ret) = ret

\* every id the walk of the first TABLE looks up is the id of a block
Resolves ==
    LET tbl == blocks[find_table(blocks)] IN
    \A r \in 1..Len(relationships(tbl)) :
        \A k \in 1..Len(ids_of(relationships(tbl)[r])) :
            LET cid == ids_of(relationships(tbl)[r])[k] IN
            /\ \E i \in 1..Len(blocks) : blocks[i].Id = cid
            /\ \A c \in 1..Len(relationships(bmap[cid])) :
                  \A j \in 1..Len(ids_of(relationships(bmap[cid])[c])) :
                      \E i \in 1..Len(blocks) :
                          blocks[i].Id = ids_of(relationships(bmap[cid])[c])[j]

\* row r has no value cell, or a value cell without WORD children
NoValue(r) ==
    \A cell \in ValueCells(r) :
        \A c \in 1..Len(relationships(cell)) :
            \A j \in 1..Len(ids_of(relationships(cell)[c])) :
                bmap[ids_of(relationships(cell)[c])[j]].BlockType # "WORD"

\* C10: for a block list with a TABLE whose children all resolve, extract_table_fields
\* does not fail and returns the fourteen table keys, and every field whose row has no
\* value cell, or a value cell without WORD children, is the empty string.
C10_MissingCellsGiveEmpty ==
    (HasTable /\ Resolves) =>
        /\ pc # "extract_failed"
        /\ pc = "extracted" =>
              /\ DOMAIN data = TableKeys
              /\ \A k \in DOMAIN FieldRow : NoValue(FieldRow[k]) => data[k] = << >>
              /\ NoValue(10) => data["Sesso"] = << >>

C10_Witness ==
    /\ pc = "extracted"
    /\ HasTable
    /\ Resolves
    /\ ValueCells(3) = {}
    /\ data["Cognome"] = << >>
    /\ data["Nome"] = <<"A","r","b","e","n">>

\* the literal texts the clean-up is said to rewrite, each with its replacement
ResidenceLiterals == <<
    << <<"N","d",".">>,            <<"E","d",".">> >>,
    << <<"H",".">>,             <<"I","n","t",".">> >>,
    << <<"A","p",".">>,            <<"A","p","p",".">> >>,
    << <<"N","j","ë","s","i","a">>,         <<"S","e","z","i","o","n","e">> >>,
    << <<"A","d","m","i","n","i","s","t","r","a","t","i","v","e">>, <<"A","m","m","i","n","i","s","t","r","a","t","i","v","a">> >>,
    << <<"N","J","Ë","S","I","A">>,         <<"S","e","z","i","o","n","e">> >>,
    << <<"A","D","M","I","N","I","S","T","R","A","T","I","V","E">>, <<"A","m","m","i","n","i","s","t","r","a","t","i","v","a">> >>,
    << <<"N","J","E","S","I","A">>,         <<"S","e","z","i","o","n","e">> >>,
    << <<"N","j","e","s","i","a">>,         <<"S","e","z","i","o","n","e">> >> >>

\* the literal replacements from literal k on, one after the other
RECURSIVE LiteralClean(_, _)
LiteralClean(k, t) ==
    IF k > Len(ResidenceLiterals) THEN t
    ELSE LiteralClean(k + 1, replace(t, ResidenceLiterals[k][1], ResidenceLiterals[k][2]))

\* a text holding none of the literals
HoldsNoLiteral(t) ==
    \A k \in 1..Len(ResidenceLiterals) : ~contains(t, ResidenceLiterals[k][1])

\* the grid of the first TABLE, before the clean-up
Grid == fill_rows(child_ids(relationships(blocks[find_table(blocks)]), 1), 1, bmap, << >>)

\* C11: the residence clean-up rewrites only the literal occurrences of the nine
\* abbreviations and unit names in the row 9 / column 2 cell, each by its replacement;
\* a residence holding none of them is unchanged, no step rewrites what an earlier step
\* wrote, and no other cell of the grid is modified.
C11_ResidenceCleanup ==
    (pc = "returned" /\ HasTable) =>
        LET cell    == rows_get(Grid, 9, 2)
            cleaned == cleaned_rows(Grid)
        IN /\ rows_get(cleaned, 9, 2) = LiteralClean(1, cell)
           /\ HoldsNoLiteral(cell) => rows_get(cleaned, 9, 2) = cell
           /\ ~residence_trace(cell).rewrote
           /\ DOMAIN cleaned = DOMAIN Grid
           /\ \A p \in DOMAIN Grid \ {<<9, 2>>} : cleaned[p] = Grid[p]
           /\ ret["Residenza"] = map_exonyms(LiteralClean(1, cell))
           /\ ret["Luogo di nascita"] = map_exonyms(rows_get(Grid, 8, 2))
           /\ ret["Cognome prima del matrimonio"] = rows_get(Grid, 13, 2)

\* the Record the single-file flow hands to the renderer for a block list
RecordAlone(doc) ==
    LET d  == extract_table_fields(doc, build_bmap(doc))
        cs == extract_comune_sezione(doc)
    IN [k \in DOMAIN d \cup {"Comune", "Sezione"} |->
           IF k = "Comune" THEN cs[1] ELSE IF k = "Sezione" THEN cs[2] ELSE d[k]]

\* the index holds the blocks of blks, and no other block
IndexOf(bm, blks) ==
    /\ DOMAIN bm = {blks[i].Id : i \in 1..Len(blks)}
    /\ \A id \in DOMAIN bm : \E i \in 1..Len(blks) : blks[i] = bm[id]

\* C12: the files of a submission are processed one after the other, in their order;
\* while file k is processed the block index is the index of the blocks of file k, and
\* the Record produced for file k is the Record the same blocks give when processed
\* alone, whatever files come before and after it.
C12_RecordsAreIndependent ==
    /\ pc \in {"file_analyzed", "file_extracted", "file_ready", "file_rendered"} =>
          /\ file_index <= Len(uploaded_files)
          /\ blocks = uploaded_files[file_index]
          /\ IndexOf(bmap, uploaded_files[file_index])
    /\ pc \in {"file_ready", "file_rendered"} =>
          data = RecordAlone(uploaded_files[file_index])
    /\ Len(zipf) <= Len(uploaded_files)
    /\ \A j \in 1..Len(zipf) : zipf[j].rendered = RecordAlone(uploaded_files[j])

\* the third file of a submission is ready after two different ones, each with its own Record
C12_Witness ==
    /\ pc = "file_ready"
    /\ Len(zipf) = 2
    /\ zipf[1].rendered # zipf[2].rendered
    /\ uploaded_files[3] = uploaded_files[1]
    /\ data = zipf[1].rendered
    /\ data = RecordAlone(uploaded_files[3])

====
